---------------------------- MODULE Spec2Model ----------------------------
(***************************************************************************)
(* Priority and combat resolution engine of rusty_cards (src/src/main.rs). *)
(*                                                                         *)
(* The engine is a bevy_ecs Schedule run once per iteration of main's      *)
(* loop.  Every system of the schedule is one action of this model; the    *)
(* variable pc is the position in the schedule (0: main's loop is about to *)
(* read the user's next command).  main gives the schedule only a partial  *)
(* order (the .before/.after constraints of lines 1426-1468); the linear   *)
(* order a build runs is fixed once the schedule is built, and is drawn at *)
(* Init from a bounded list of linear extensions of that partial order.    *)
(*                                                                         *)
(* Change detection (is_changed) is modelled per observing system: a       *)
(* resource is "changed" for a system when it was mutably dereferenced     *)
(* since that system last ran, or earlier in the system's own run.         *)
(*                                                                         *)
(* Left out because they never change engine state in this program: the    *)
(* print-only systems start_start_phase and start_end_phase, the three     *)
(* ToxicityRed systems (their triggers are spawned only after the Played   *)
(* resource is set, which no code does), and the HandZone/PitchZone        *)
(* containers (written by read_pitch, read by nothing).                    *)
(***************************************************************************)
EXTENDS Integers, Sequences, FiniteSets, TLC

(***************************************************************************)
(* Bounds of the model.                                                    *)
(***************************************************************************)
\* accepted pitch commands per run (each adds resources, which pay attacks)
MaxPitch == 1
\* how many of the candidate schedule orders are explored
NumSchedules == 2

(***************************************************************************)
(* The world main spawns (lines 1368-1412), by entity name.  "action_card" *)
(* and "instant_card" are not spawned by main: they are catalogue entries  *)
(* with the component sets the engine's queries tell apart (a non-attack   *)
(* action and a non-attack instant), so that the non-attack route of the   *)
(* admission gate is exercised; the instant's Defense equals the attack    *)
(* card's Attack, so that a block can meet an attack exactly.  "ghost" is  *)
(* an entity id no entity has (the parser turns any number into an Entity, *)
(* line 1272).                                                             *)
(***************************************************************************)
NoEntity == "none"

Heroes == {"hero1", "hero2"}

\* spawn order of the heroes: the iteration order of roll_for_first's query
HeroOrder == <<"hero1", "hero2">>

Cards == {"attack_card", "pitch_card", "toxicity_red", "action_card", "instant_card"}

Entities == Heroes \cup Cards

HasCardName(e) == e \in Entities

IsHero(e) == e \in Heroes

\* the CardType component, "none" when the entity has none
CardTypeOf(e) ==
    CASE e \in {"attack_card", "toxicity_red", "action_card"} -> "Action"
      [] e = "instant_card" -> "Instant"
      [] e = "pitch_card" -> "Resource"
      [] OTHER -> "none"

\* CardType::is_action
is_action(t) == t = "Action"

\* CardType::is_playable
is_playable(t) == t = "Action" \/ t = "Instant"

\* whether the entity has a CardSubTypes component (toxicity_red has none)
HasSubTypes(e) == e \in {"attack_card", "pitch_card", "action_card", "instant_card"}

SubTypesOf(e) == IF e = "attack_card" THEN {"Attack"} ELSE {}

\* CardSubTypes::requires_target
requires_target(e) == "Attack" \in SubTypesOf(e)

\* CardSubTypes::has_attack
has_attack(e) == "Attack" \in SubTypesOf(e)

HasCost(e) == e \in {"attack_card", "toxicity_red", "action_card", "instant_card"}

CostOf(e) ==
    CASE e = "attack_card" -> 1
      [] e = "action_card" -> 1
      [] OTHER -> 0

HasAttack(e) == e = "attack_card"

AttackOf(e) == IF e = "attack_card" THEN 3 ELSE 0

HasDefense(e) == e \in {"attack_card", "toxicity_red", "instant_card"}

DefenseOf(e) ==
    CASE e \in {"attack_card", "toxicity_red"} -> 2
      [] e = "instant_card" -> 3
      [] OTHER -> 0

HasColor(e) == e \in {"attack_card", "pitch_card", "toxicity_red"}

\* Color::pitch: Red 1, Yellow 2, Blue 3
pitch(e) == IF e = "toxicity_red" THEN 1 ELSE 2

\* HeroBundle::default: Health(40)
InitialHealth == 40

\* u16
U16 == 65536

(***************************************************************************)
(* Priority (lines 321-416) as a record and its methods as operators.      *)
(***************************************************************************)
Front(s) == IF s = <<>> THEN NoEntity ELSE Head(s)

\* faulty variant of hold_priority: the hold is not set
hold_priority_dropped(p) == p

hold_priority(p) == [p EXCEPT !.hold = TRUE]

\* faulty variant of release_priority: the hold is left as it is
release_priority_kept(p) == p

release_priority(p) == [p EXCEPT !.hold = FALSE]

\* faulty variant of has_priority: the sender is not compared with the head
has_priority_anyone(p, e) == p.holding # <<>> /\ ~p.blocks

has_priority(p, e) == p.holding # <<>> /\ Head(p.holding) = e /\ ~p.blocks

is_blocking(p, e) == p.holding # <<>> /\ Head(p.holding) = e /\ p.blocks

\* Option<&Entity>: NoEntity for None
priority_hero(p) == Front(p.holding)

\* faulty variant of turn_player: with nobody holding, the last to pass
turn_player_last_passed(p) ==
    IF p.holding # <<>> THEN Head(p.holding)
    ELSE IF p.passed # <<>> THEN p.passed[Len(p.passed)] ELSE NoEntity

\* NoEntity stands for the panic "At least one player should exist"
turn_player(p) == IF p.holding # <<>> THEN Head(p.holding) ELSE Front(p.passed)

\* faulty variant of reset: passed is not drained
reset_undrained(p) == [p EXCEPT !.holding = p.passed \o p.holding]

reset(p) == [p EXCEPT !.holding = p.passed \o p.holding, !.passed = <<>>]

\* faulty variant of pass_priority: the auto-reset looks at passed as it was
\* before the move
pass_priority_early_reset(p) ==
    LET q == IF p.holding # <<>>
             THEN [p EXCEPT !.holding = Tail(p.holding),
                            !.passed = Append(p.passed, Head(p.holding))]
             ELSE p
    IN IF p.passed = <<>> /\ p.card_played THEN reset(q) ELSE q

pass_priority(p) ==
    LET q == IF p.holding # <<>>
             THEN [p EXCEPT !.holding = Tail(p.holding),
                            !.passed = Append(p.passed, Head(p.holding))]
             ELSE p
    IN IF q.passed = <<>> /\ q.card_played THEN reset(q) ELSE q

\* Faulty variant of all_passed: only the hold is looked at, not who still
\* has priority.
all_passed_unheld(p) == ~p.hold

all_passed(p) == p.holding = <<>> /\ ~p.hold

\* faulty variant of rotate_left: the deque is rotated the other way
rotate_right(s) == IF s = <<>> THEN s ELSE <<s[Len(s)]>> \o SubSeq(s, 1, Len(s) - 1)

\* VecDeque::rotate_left(1); the deque is never empty here (it would panic)
rotate_left(s) == IF s = <<>> THEN s ELSE Append(Tail(s), Head(s))

cycle_priority(p) == LET q == reset(p) IN [q EXCEPT !.holding = rotate_left(q.holding)]

\* faulty variant of someone_has_priority: the hold is not looked at
someone_has_priority_held(p) == p.holding # <<>>

someone_has_priority(p) == ~(p.holding = <<>> \/ p.hold)

(***************************************************************************)
(* The schedule (main, lines 1424-1468).                                   *)
(***************************************************************************)
Systems == {"read_card", "read_priority", "read_pitch", "read_blocks",
            "evaluate_cost", "end_start_phase", "start_action_phase",
            "trigger_layer_step", "trigger_attack_step", "trigger_defend_step",
            "trigger_reaction_step", "trigger_damage_step",
            "trigger_resolution_step", "trigger_link_step", "trigger_close_step",
            "end_action_phase", "trigger_end_phase", "end_end_phase",
            "resolve_stack"}

CombatTriggers == {"trigger_layer_step", "trigger_attack_step", "trigger_defend_step",
                   "trigger_reaction_step", "trigger_damage_step",
                   "trigger_resolution_step", "trigger_link_step", "trigger_close_step"}

\* the ordering constraints main states: <<a, b>> means a runs before b
Before ==
    {<<"end_start_phase", "start_action_phase">>,
     <<"start_action_phase", "end_action_phase">>,
     <<"end_action_phase", "trigger_end_phase">>,
     <<"trigger_end_phase", "end_end_phase">>}
    \cup {<<"start_action_phase", c>> : c \in CombatTriggers}

\* the order in which main adds the systems
DeclaredOrder ==
    <<"read_card", "read_priority", "read_pitch", "read_blocks",
      "evaluate_cost", "end_start_phase", "start_action_phase",
      "trigger_layer_step", "trigger_attack_step", "trigger_defend_step",
      "trigger_reaction_step", "trigger_damage_step",
      "trigger_resolution_step", "trigger_link_step", "trigger_close_step",
      "end_action_phase", "trigger_end_phase", "end_end_phase",
      "resolve_stack">>

\* the declared order reversed wherever main states no constraint
ReversedOrder ==
    <<"resolve_stack", "end_start_phase", "start_action_phase",
      "end_action_phase", "trigger_end_phase", "end_end_phase",
      "trigger_close_step", "trigger_link_step", "trigger_resolution_step",
      "trigger_damage_step", "trigger_reaction_step", "trigger_defend_step",
      "trigger_attack_step", "trigger_layer_step",
      "evaluate_cost", "read_blocks", "read_pitch", "read_priority", "read_card">>

\* a third linear extension, with admission between the combat triggers
MixedOrder ==
    <<"end_start_phase", "read_priority", "evaluate_cost", "start_action_phase",
      "trigger_resolution_step", "read_card", "trigger_damage_step",
      "end_action_phase", "trigger_attack_step", "read_blocks",
      "trigger_defend_step", "trigger_end_phase", "trigger_layer_step",
      "resolve_stack", "trigger_reaction_step", "read_pitch",
      "trigger_close_step", "end_end_phase", "trigger_link_step">>

\* a fourth: stack resolution and the end-of-phase systems before the reads
LateReadOrder ==
    <<"end_start_phase", "start_action_phase", "trigger_layer_step",
      "resolve_stack", "trigger_close_step", "trigger_attack_step",
      "end_action_phase", "trigger_link_step", "trigger_defend_step",
      "trigger_end_phase", "read_pitch", "read_card", "read_blocks",
      "read_priority", "trigger_reaction_step", "trigger_resolution_step",
      "trigger_damage_step", "end_end_phase", "evaluate_cost">>

ScheduleCandidates == <<DeclaredOrder, ReversedOrder, MixedOrder, LateReadOrder>>

Pos(o, s) == CHOOSE i \in 1..Len(o) : o[i] = s

IsLinearExtension(o) ==
    /\ Len(o) = Cardinality(Systems)
    /\ {o[i] : i \in 1..Len(o)} = Systems
    /\ \A c \in Before : Pos(o, c[1]) < Pos(o, c[2])

Schedules ==
    {o \in {ScheduleCandidates[i] : i \in 1..NumSchedules} : IsLinearExtension(o)}

(***************************************************************************)
(* Commands of the user (read_event_from_user, lines 1252-1344).           *)
(***************************************************************************)
NoIntent == [kind |-> "none", hero |-> NoEntity, card |-> NoEntity,
             target |-> NoEntity, blocks |-> <<>>]

\* an entity id no entity has
Ghost == "ghost"

\* the (card, target) pairs of the play commands tried
PlayChoices ==
    {<<"attack_card", t>> : t \in {NoEntity, "attack_card", Ghost} \cup Heroes}
    \cup {<<c, NoEntity>> : c \in {"pitch_card", "toxicity_red", "action_card",
                                   "instant_card", Ghost}}

\* the cards of the pitch commands tried
PitchChoices == {"pitch_card", "toxicity_red", Ghost}

\* the block lists of the block commands tried
BlockChoices ==
    {<<>>, <<"attack_card">>, <<"toxicity_red">>, <<"attack_card", "toxicity_red">>,
     <<"pitch_card">>, <<Ghost>>, <<"attack_card", Ghost>>, <<"instant_card">>}

PlayCard == {[kind |-> "play", hero |-> h, card |-> c[1], target |-> c[2], blocks |-> <<>>] :
                h \in Heroes, c \in PlayChoices}

PassPriority == {[kind |-> "pass", hero |-> h, card |-> NoEntity, target |-> NoEntity,
                  blocks |-> <<>>] : h \in Heroes}

PitchCard == {[kind |-> "pitch", hero |-> h, card |-> c, target |-> NoEntity,
               blocks |-> <<>>] : h \in Heroes, c \in PitchChoices}

DeclareBlocks == {[kind |-> "block", hero |-> h, card |-> NoEntity, target |-> NoEntity,
                   blocks |-> b] : h \in Heroes, b \in BlockChoices}

End == [kind |-> "end", hero |-> NoEntity, card |-> NoEntity, target |-> NoEntity,
        blocks |-> <<>>]

EventType == PlayCard \cup PassPriority \cup PitchCard \cup DeclareBlocks \cup {End}

(***************************************************************************)
(* State.                                                                  *)
(***************************************************************************)
VARIABLES
    priority,         \* Priority: [holding, passed, hold, blocks, card_played]
    proposed_event,   \* ProposedEvent: <<>> or <<GameEvent>>
    stack,            \* Stack: sequence of GameEvent, front first
    attack_layer,     \* AttackLayer: <<>> or <<GameEvent>>
    chain,            \* Chain: [links, open]
    game_state,       \* GameState
    combat_state,     \* CombatState: "None" or a CombatSteps value
    resources,        \* Resources of each hero
    action_points,    \* ActionPoints of each hero
    health,           \* Health of each hero
    intent,           \* the command sent this tick and not yet read
    pc,               \* position in the schedule; 0: main's loop reads a command
    order,            \* the schedule's linear order
    halt,             \* "none", "end" (the loop broke) or the panic that ended the run
    out,              \* what the last step printed (its last line), "" if nothing
    prioChanged,      \* systems for which priority.is_changed() is true
    layerChanged,     \* attack_layer.is_changed() for trigger_layer_step
    gsChanged,        \* game_state.is_changed() for start_action_phase
    pitched           \* accepted pitch commands so far (bounded by MaxPitch)

vars == <<priority, proposed_event, stack, attack_layer, chain, game_state,
          combat_state, resources, action_points, health, intent, pc, order,
          halt, out, prioChanged, layerChanged, gsChanged, pitched>>

\* the systems that test priority.is_changed()
PrioWatchers == {"trigger_attack_step", "trigger_defend_step", "trigger_reaction_step",
                 "trigger_damage_step", "trigger_link_step", "trigger_close_step",
                 "end_action_phase", "trigger_end_phase"}

GameEvent(t, c, a, atk) == [target |-> t, card |-> c, actor |-> a, attack |-> atk]

\* ChainLink::attack
ChainLink(t, a, c) == [target |-> t, attacker |-> a, attack |-> c, blocks |-> <<>>,
                       attack_reactions |-> <<>>, defense_reactions |-> <<>>,
                       hit |-> FALSE, closed |-> FALSE]

\* faulty variant of add_chain_link: the chain is opened, the link not pushed
add_chain_link_unpushed(ch, l) == [open |-> TRUE, links |-> ch.links]

\* faulty variant of add_chain_link: the link is pushed, the chain not opened
add_chain_link_unopened(ch, l) == [open |-> ch.open, links |-> Append(ch.links, l)]

\* Chain::add_chain_link
add_chain_link(ch, l) == [open |-> TRUE, links |-> Append(ch.links, l)]

\* rotations of the spawn order: roll_for_first puts the winner first
Rotations(s) ==
    {[i \in 1..Len(s) |-> s[((i + k - 1) % Len(s)) + 1]] : k \in 0..(Len(s) - 1)}

\* the world after main's set-up and the start-up schedule (roll_for_first);
\* the first schedule.run follows without a command (line 1474)
Init ==
    /\ priority \in {[holding |-> h, passed |-> <<>>, hold |-> FALSE, blocks |-> FALSE,
                      card_played |-> FALSE] : h \in Rotations(HeroOrder)}
    /\ proposed_event = <<>>
    /\ stack = <<>>
    /\ attack_layer = <<>>
    /\ chain = [links |-> <<>>, open |-> FALSE]
    /\ game_state = "StartPhase"
    /\ combat_state = "None"
    /\ resources = [h \in Heroes |-> 0]
    /\ action_points = [h \in Heroes |-> 0]
    /\ health = [h \in Heroes |-> InitialHealth]
    /\ intent = NoIntent
    /\ pc = 1
    /\ order \in Schedules
    /\ halt = "none"
    /\ out = ""
    /\ prioChanged = PrioWatchers
    /\ layerChanged = TRUE
    /\ gsChanged = TRUE
    /\ pitched = 0

Running(s) == halt = "none" /\ pc > 0 /\ order[pc] = s

NextPc == IF pc = Len(order) THEN 0 ELSE pc + 1

\* priority.is_changed() for each watcher after system s ran; m: s mutated priority
Watch(s, m) == IF m THEN PrioWatchers \ {s} ELSE prioChanged \ {s}

(***************************************************************************)
(* main's loop, lines 1479-1501: with someone_has_priority a command is    *)
(* read (a line that does not parse sends nothing), then the schedule runs.*)
(* Pitch commands are sent only while fewer than MaxPitch were accepted.   *)
(* Every reader tests the sender before it looks at the cards named, so    *)
(* for a sender who is not at the head of holding one command of each kind *)
(* is tried.                                                               *)
(***************************************************************************)
Commands == IF pitched < MaxPitch THEN EventType ELSE EventType \ PitchCard

OutOfTurn ==
    {e \in EventType :
        \/ e.kind = "pass"
        \/ e.kind = "play" /\ e.card = "attack_card" /\ e.target = HeroOrder[1]
        \/ e.kind = "pitch" /\ e.card = "pitch_card"
        \/ e.kind = "block" /\ e.blocks = <<"attack_card">>}

Offered ==
    {e \in Commands : e.kind = "end" \/ e.hero = Front(priority.holding)
                                     \/ e \in OutOfTurn}

main_loop ==
    /\ halt = "none"
    /\ pc = 0
    /\ \E e \in IF someone_has_priority(priority)
                THEN Offered \cup {NoIntent} ELSE {NoIntent} :
          /\ intent' = IF e.kind = "end" THEN NoIntent ELSE e
          /\ halt' = IF e.kind = "end" THEN "end" ELSE "none"
          /\ pc' = IF e.kind = "end" THEN 0 ELSE 1
    /\ out' = ""
    /\ UNCHANGED <<priority, proposed_event, stack, attack_layer, chain, game_state,
                   combat_state, resources, action_points, health, order,
                   prioChanged, layerChanged, gsChanged, pitched>>

(***************************************************************************)
(* read_systems (lines 448-589).  Each reader reads only its own kind of   *)
(* event; a return inside the loop leaves the event consumed.              *)
(***************************************************************************)
\* card_query of read_card: (&CardName, &CardType, &CardSubTypes)
ReadCardQuery(c) == HasCardName(c) /\ CardTypeOf(c) # "none" /\ HasSubTypes(c)

\* the result of read_card on a PlayCard event
ReadCardResult(p, e) ==
    IF ~has_priority(p, e.hero) THEN "Player does not have priority"
    ELSE IF ~ReadCardQuery(e.card) THEN "panic: read_card: card query"
    ELSE IF ~is_playable(CardTypeOf(e.card)) THEN "Card is not playable"
    ELSE IF e.target # NoEntity /\ ~HasCardName(e.target) THEN "panic: read_card: target query"
    ELSE IF requires_target(e.card) /\ e.target = NoEntity THEN "Target needed"
    ELSE "Card played"

IsPanic(r) == r \in {"panic: read_card: card query", "panic: read_card: target query",
                     "panic: read_pitch: card query",
                     "panic: evaluate_cost: Invalid card referenced",
                     "panic: evaluate_cost: no priority hero",
                     "panic: evaluate_cost: proposed event already taken",
                     "panic: Chain link ceased to exist during defense step",
                     "panic: Target ceased to exist during defense step",
                     "panic: trigger_damage_step: no chain link",
                     "panic: Attack has ceased to exist during the damage step",
                     "panic: Target ceased to exist at damage step",
                     "panic: attempt to subtract with overflow",
                     "panic: Chain link ceased to exist during resolution step",
                     "panic: Chain link missing",
                     "panic: At least one player should exist"}

read_card ==
    /\ Running("read_card")
    /\ pc' = NextPc
    /\ LET r == IF intent.kind = "play" THEN ReadCardResult(priority, intent) ELSE ""
       IN /\ out' = r
          /\ halt' = IF IsPanic(r) THEN r ELSE "none"
          /\ intent' = IF intent.kind = "play" THEN NoIntent ELSE intent
          /\ proposed_event' =
                IF r = "Card played"
                THEN <<GameEvent(intent.target, intent.card, intent.hero,
                                 has_attack(intent.card))>>
                ELSE proposed_event
          /\ priority' = IF r = "Card played" THEN hold_priority(priority) ELSE priority
          /\ prioChanged' = Watch("read_card", r = "Card played")
    /\ UNCHANGED <<stack, attack_layer, chain, game_state, combat_state, resources,
                   action_points, health, order, layerChanged, gsChanged, pitched>>

read_priority ==
    /\ Running("read_priority")
    /\ pc' = NextPc
    /\ LET r == IF intent.kind # "pass" THEN ""
                ELSE IF ~has_priority(priority, intent.hero) THEN "You do not have priority"
                ELSE IF all_passed(pass_priority(priority)) THEN "All players passed priority"
                ELSE "passed priority"
           ok == r \in {"All players passed priority", "passed priority"}
       IN /\ out' = r
          /\ intent' = IF intent.kind = "pass" THEN NoIntent ELSE intent
          /\ priority' = IF ok THEN pass_priority(priority) ELSE priority
          /\ prioChanged' = Watch("read_priority", ok)
    /\ UNCHANGED <<proposed_event, stack, attack_layer, chain, game_state, combat_state,
                   resources, action_points, health, order, halt, layerChanged,
                   gsChanged, pitched>>

\* card_query of read_pitch: (&CardName, &Color)
ReadPitchQuery(c) == HasCardName(c) /\ HasColor(c)

read_pitch ==
    /\ Running("read_pitch")
    /\ pc' = NextPc
    /\ LET r == IF intent.kind # "pitch" THEN ""
                ELSE IF ~has_priority(priority, intent.hero) THEN "Player does not have priority"
                ELSE IF proposed_event = <<>> THEN "Cannot pitch to nothing"
                ELSE IF ~ReadPitchQuery(intent.card) THEN "panic: read_pitch: card query"
                ELSE "pitched"
       IN /\ out' = r
          /\ halt' = IF IsPanic(r) THEN r ELSE "none"
          /\ intent' = IF intent.kind = "pitch" THEN NoIntent ELSE intent
          /\ resources' =
                IF r = "pitched"
                THEN [resources EXCEPT ![intent.hero] = (@ + pitch(intent.card)) % U16]
                ELSE resources
          /\ priority' = IF r = "pitched" THEN hold_priority(priority) ELSE priority
          /\ prioChanged' = Watch("read_pitch", r = "pitched")
          /\ pitched' = IF r = "pitched" THEN pitched + 1 ELSE pitched
    /\ UNCHANGED <<proposed_event, stack, attack_layer, chain, game_state, combat_state,
                   action_points, health, order, layerChanged, gsChanged>>

\* faulty variant of BlocksResult: only the first declared card is looked at
BlocksResultFirstOnly(b) ==
    IF b = <<>> \/ (HasCardName(b[1]) /\ HasDefense(b[1])) THEN "blocks declared"
    ELSE IF HasCardName(b[1]) THEN "Card cannot block"
    ELSE "Invalid entry declared for blocks"

\* card_query of read_blocks: (&CardName, Option<&Defense>)
BlocksResult(b) ==
    IF \E i \in 1..Len(b) :
          /\ ~(HasCardName(b[i]) /\ HasDefense(b[i]))
          /\ \A j \in 1..(i - 1) : HasCardName(b[j]) /\ HasDefense(b[j])
    THEN LET i == CHOOSE k \in 1..Len(b) :
                     /\ ~(HasCardName(b[k]) /\ HasDefense(b[k]))
                     /\ \A j \in 1..(k - 1) : HasCardName(b[j]) /\ HasDefense(b[j])
         IN IF HasCardName(b[i]) THEN "Card cannot block"
            ELSE "Invalid entry declared for blocks"
    ELSE "blocks declared"

\* faulty variant of SetLast: the first link is written, not the last
SetFirst(links, l) == [links EXCEPT ![1] = l]

SetLast(links, l) == [links EXCEPT ![Len(links)] = l]

Last(links) == links[Len(links)]

read_blocks ==
    /\ Running("read_blocks")
    /\ pc' = NextPc
    /\ LET r == IF intent.kind # "block" THEN ""
                ELSE IF ~is_blocking(priority, intent.hero)
                     THEN "Player cannot block at this moment"
                ELSE IF BlocksResult(intent.blocks) # "blocks declared"
                     THEN BlocksResult(intent.blocks)
                ELSE IF chain.links = <<>> THEN "panic: Chain link missing"
                ELSE "blocks declared"
       IN /\ out' = r
          /\ halt' = IF IsPanic(r) THEN r ELSE "none"
          /\ intent' = IF intent.kind = "block" THEN NoIntent ELSE intent
          /\ chain' =
                IF r = "blocks declared"
                THEN [chain EXCEPT !.links =
                         SetLast(@, [Last(@) EXCEPT !.blocks = intent.blocks])]
                ELSE chain
          /\ priority' = IF r = "blocks declared" THEN pass_priority(priority) ELSE priority
          /\ prioChanged' = Watch("read_blocks", r = "blocks declared")
    /\ UNCHANGED <<proposed_event, stack, attack_layer, game_state, combat_state,
                   resources, action_points, health, order, layerChanged, gsChanged,
                   pitched>>

(***************************************************************************)
(* game_systems (lines 591-681).                                           *)
(***************************************************************************)
\* cost_query of evaluate_cost: (&CardName, &CardType, &Cost)
CostQuery(c) == HasCardName(c) /\ CardTypeOf(c) # "none" /\ HasCost(c)

\* faulty variant of NoActionPoint: the action point check is skipped
NoActionPointSkipped(c, ap) == FALSE

\* lines 618-619: the card takes an action point and the hero has none
NoActionPoint(c, ap) == is_action(CardTypeOf(c)) /\ ap = 0

\* faulty variant of NotPayable: the payability check is skipped
NotPayableSkipped(r, c) == FALSE

\* line 629: the cost is not payable
NotPayable(r, c) == r < CostOf(c)

\* the result of evaluate_cost on the proposed event ev, hero h holding priority
EvaluateCostResult(ev, h) ==
    IF ~CostQuery(ev.card) THEN "panic: evaluate_cost: Invalid card referenced"
    ELSE IF h = NoEntity THEN "panic: evaluate_cost: no priority hero"
    ELSE IF NoActionPoint(ev.card, action_points[h])
         THEN "Player does not have any action points."
    ELSE IF NotPayable(resources[h], ev.card) THEN "Not enough resources."
    ELSE IF ev.attack THEN "added to the stack"
    ELSE "panic: evaluate_cost: proposed event already taken"

\* lines 636-643: the payment, made before the event is routed
Paid(r) == r \in {"added to the stack", "panic: evaluate_cost: proposed event already taken"}

\* faulty variant of Takes: every evaluated proposal is taken
TakesAlways(r) == r # ""

\* lines 622 and 646: the results on which the proposal is taken out of
\* ProposedEvent
Takes(r) == r = "Player does not have any action points." \/ Paid(r)

evaluate_cost ==
    /\ Running("evaluate_cost")
    /\ pc' = NextPc
    /\ LET h == priority_hero(priority)
           ev == IF proposed_event = <<>> THEN GameEvent(NoEntity, NoEntity, NoEntity, FALSE)
                 ELSE proposed_event[1]
           r == IF proposed_event = <<>> THEN "" ELSE EvaluateCostResult(ev, h)
       IN /\ out' = r
          /\ halt' = IF IsPanic(r) THEN r ELSE "none"
          /\ proposed_event' =
                IF Takes(r) THEN <<>> ELSE proposed_event
          /\ resources' =
                IF Paid(r) THEN [resources EXCEPT ![h] = @ - CostOf(ev.card)] ELSE resources
          /\ action_points' =
                IF Paid(r) /\ is_action(CardTypeOf(ev.card))
                THEN [action_points EXCEPT ![h] = @ - 1] ELSE action_points
          /\ attack_layer' = IF r = "added to the stack" THEN <<ev>> ELSE attack_layer
          /\ layerChanged' = (layerChanged \/ r = "added to the stack")
          /\ priority' =
                IF r \in {"Player does not have any action points.", "Not enough resources."}
                THEN release_priority(priority)
                ELSE IF r = "added to the stack"
                THEN [hold_priority(priority) EXCEPT !.card_played = TRUE]
                ELSE priority
          /\ prioChanged' =
                Watch("evaluate_cost",
                      r \in {"Player does not have any action points.",
                             "Not enough resources.", "added to the stack"})
    /\ UNCHANGED <<stack, chain, game_state, combat_state, health, intent, order,
                   gsChanged, pitched>>

\* card_query of resolve_stack: &CardSubTypes
resolve_stack ==
    /\ Running("resolve_stack")
    /\ pc' = NextPc
    /\ LET pop == all_passed(priority) /\ stack # <<>>
           gone == pop /\ ~HasSubTypes(Head(stack).card)
       IN /\ stack' = IF pop THEN Tail(stack) ELSE stack
          /\ combat_state' = IF gone /\ Head(stack).attack THEN "CloseStep" ELSE combat_state
          /\ out' = IF gone THEN "Source on stack has ceased to exist." ELSE ""
    /\ UNCHANGED <<priority, proposed_event, attack_layer, chain, game_state, resources,
                   action_points, health, intent, order, halt, prioChanged,
                   layerChanged, gsChanged, pitched>>

(***************************************************************************)
(* combat_systems (lines 809-1069).                                        *)
(***************************************************************************)
\* faulty variant of LayerLegal: the Layer step is entered from any step
LayerLegalAlways(c) == TRUE

\* lines 821-825: the Layer step is entered from no step or from the Link step
LayerLegal(c) == c \in {"None", "LinkStep"}

trigger_layer_step ==
    /\ Running("trigger_layer_step")
    /\ pc' = NextPc
    /\ LET fire == layerChanged /\ attack_layer # <<>>
           legal == LayerLegal(combat_state)
       IN /\ attack_layer' = IF fire /\ ~legal THEN <<>> ELSE attack_layer
          /\ combat_state' = IF fire /\ legal THEN "LayerStep" ELSE combat_state
          /\ priority' = IF fire /\ legal THEN release_priority(priority) ELSE priority
          /\ prioChanged' = Watch("trigger_layer_step", fire /\ legal)
          /\ out' = IF ~fire THEN ""
                    ELSE IF legal THEN "Moving to Layer Step"
                    ELSE "Attack incorrectly added to the stack"
    /\ layerChanged' = FALSE
    /\ UNCHANGED <<proposed_event, stack, chain, game_state, resources, action_points,
                   health, intent, order, halt, gsChanged, pitched>>

\* faulty variant of TargetResolves: the target is not validated
TargetResolvesAlways(t) == TRUE

\* target_query of trigger_attack_step: Query<Entity>
TargetResolves(t) == t # NoEntity /\ t \in Entities

trigger_attack_step ==
    /\ Running("trigger_attack_step")
    /\ pc' = NextPc
    /\ LET fire == /\ combat_state = "LayerStep"
                   /\ "trigger_attack_step" \in prioChanged
                   /\ all_passed(priority)
           staged == attack_layer # <<>>
           ok == fire /\ staged /\ TargetResolves(attack_layer[1].target)
       IN /\ combat_state' = IF ~fire THEN combat_state
                             ELSE IF ok THEN "AttackStep" ELSE "CloseStep"
          /\ attack_layer' = IF fire THEN <<>> ELSE attack_layer
          /\ layerChanged' = (layerChanged \/ (fire /\ staged))
          /\ chain' = IF ok
                      THEN add_chain_link(chain,
                              ChainLink(attack_layer[1].target, attack_layer[1].actor,
                                        attack_layer[1].card))
                      ELSE chain
          /\ priority' = IF ok THEN reset(priority) ELSE priority
          /\ prioChanged' = Watch("trigger_attack_step", ok)
          /\ out' = IF ~fire THEN ""
                    ELSE IF ~staged THEN "Attack has ceased to exist. Moving to Close Step."
                    ELSE IF ~ok THEN "Invalid target. Moving to Close Step"
                    ELSE "Attack added to the chain"
    /\ UNCHANGED <<proposed_event, stack, game_state, resources, action_points, health,
                   intent, order, halt, gsChanged, pitched>>

\* lines 897-920: the first block of trigger_defend_step, on priority p
DefendOpen(p, target) ==
    LET q == [p EXCEPT !.blocks = TRUE]
    IN IF IsHero(target) THEN pass_priority(reset(q)) ELSE q

\* lines 922-930: the second block
DefendBlocksDeclared(p) == reset([p EXCEPT !.blocks = FALSE])

trigger_defend_step ==
    /\ Running("trigger_defend_step")
    /\ pc' = NextPc
    /\ LET fire == /\ combat_state = "AttackStep"
                   /\ "trigger_defend_step" \in prioChanged
                   /\ all_passed(priority)
                   /\ stack = <<>>
           r == IF ~fire THEN ""
                ELSE IF chain.links = <<>>
                     THEN "panic: Chain link ceased to exist during defense step"
                ELSE IF Last(chain.links).target \notin Entities
                     THEN "panic: Target ceased to exist during defense step"
                ELSE "Switching to Defend Step."
           open == r = "Switching to Defend Step."
           p1 == IF open THEN DefendOpen(priority, Last(chain.links).target)
                 ELSE IF fire THEN [priority EXCEPT !.blocks = TRUE]
                 ELSE priority
           c1 == IF fire THEN "DefendStep" ELSE combat_state
           declared == /\ ~IsPanic(r)
                       /\ c1 = "DefendStep"
                       /\ ("trigger_defend_step" \in prioChanged \/ fire)
                       /\ all_passed(p1)
                       /\ p1.blocks
       IN /\ combat_state' = c1
          /\ priority' = IF declared THEN DefendBlocksDeclared(p1) ELSE p1
          /\ prioChanged' = Watch("trigger_defend_step", fire \/ declared)
          /\ halt' = IF IsPanic(r) THEN r ELSE "none"
          /\ out' = IF declared THEN "Blocks declared" ELSE r
    /\ UNCHANGED <<proposed_event, stack, attack_layer, chain, game_state, resources,
                   action_points, health, intent, order, layerChanged, gsChanged,
                   pitched>>

trigger_reaction_step ==
    /\ Running("trigger_reaction_step")
    /\ pc' = NextPc
    /\ LET fire == /\ combat_state = "DefendStep"
                   /\ "trigger_reaction_step" \in prioChanged
                   /\ all_passed(priority)
                   /\ stack = <<>>
       IN /\ combat_state' = IF fire THEN "ReactionStep" ELSE combat_state
          /\ priority' = IF fire THEN reset(priority) ELSE priority
          /\ prioChanged' = Watch("trigger_reaction_step", fire)
          /\ out' = IF fire THEN "Moving to Reaction Step." ELSE ""
    /\ UNCHANGED <<proposed_event, stack, attack_layer, chain, game_state, resources,
                   action_points, health, intent, order, halt, layerChanged, gsChanged,
                   pitched>>

\* the Defense of the entities of s that have one (lines 975-984)
RECURSIVE SumDefense(_)
SumDefense(s) ==
    IF s = <<>> THEN 0
    ELSE (IF HasDefense(Head(s)) THEN DefenseOf(Head(s)) ELSE 0) + SumDefense(Tail(s))

\* faulty variant of total_defense: the blocks are left out
total_defense_reactions(link) == SumDefense(link.defense_reactions) % U16

\* lines 974-984
total_defense(link) == (SumDefense(link.blocks) + SumDefense(link.defense_reactions)) % U16

\* faulty variant of Hits: every attack hits
HitsAlways(attack, defense) == TRUE

\* line 987
Hits(attack, defense) == attack >= defense

\* faulty variant of Dmg: the defense is not subtracted
DmgUnblocked(attack, defense) == attack

\* line 993
Dmg(attack, defense) == attack - defense

\* defender_query of trigger_damage_step: (&CardName, &mut Health)
DefenderQuery(t) == HasCardName(t) /\ IsHero(t)

\* the result of the damage calculation on the current link
DamageResult(links) ==
    IF links = <<>> THEN "panic: trigger_damage_step: no chain link"
    ELSE IF ~HasAttack(Last(links).attack)
         THEN "panic: Attack has ceased to exist during the damage step"
    ELSE IF ~Hits(AttackOf(Last(links).attack), total_defense(Last(links))) THEN "no hit"
    ELSE IF ~DefenderQuery(Last(links).target)
         THEN "panic: Target ceased to exist at damage step"
    ELSE "taking damage"

\* Health's u16 subtraction (line 994): below zero a debug build panics and a
\* release build wraps; wrap chooses between the two
trigger_damage_step ==
    /\ Running("trigger_damage_step")
    /\ pc' = NextPc
    /\ LET fire == /\ combat_state = "ReactionStep"
                   /\ "trigger_damage_step" \in prioChanged
                   /\ all_passed(priority)
                   /\ stack = <<>>
           r == IF fire THEN DamageResult(chain.links) ELSE ""
           link == Last(chain.links)
           dmg == Dmg(AttackOf(link.attack), total_defense(link))
           under == r = "taking damage" /\ health[link.target] < dmg
       IN \E wrap \in IF under THEN BOOLEAN ELSE {TRUE} :
          /\ combat_state' = IF fire THEN "DamageStep" ELSE combat_state
          /\ priority' = IF fire THEN hold_priority(priority) ELSE priority
          /\ prioChanged' = Watch("trigger_damage_step", fire)
          /\ chain' = IF r \in {"taking damage", "panic: Target ceased to exist at damage step"}
                      THEN [chain EXCEPT !.links = SetLast(@, [link EXCEPT !.hit = TRUE])]
                      ELSE chain
          /\ health' = IF r = "taking damage" /\ wrap
                       THEN [health EXCEPT ![link.target] = (@ - dmg) % U16]
                       ELSE health
          /\ halt' = IF IsPanic(r) THEN r
                     ELSE IF ~wrap THEN "panic: attempt to subtract with overflow"
                     ELSE "none"
          /\ out' = r
    /\ UNCHANGED <<proposed_event, stack, attack_layer, game_state, resources,
                   action_points, intent, order, layerChanged, gsChanged, pitched>>

trigger_resolution_step ==
    /\ Running("trigger_resolution_step")
    /\ pc' = NextPc
    /\ LET fire == combat_state = "DamageStep"
           r == IF ~fire THEN ""
                ELSE IF chain.links = <<>>
                     THEN "panic: Chain link ceased to exist during resolution step"
                ELSE "Moving to Resolution Step"
           ok == r = "Moving to Resolution Step"
       IN /\ combat_state' = IF fire THEN "ResolutionStep" ELSE combat_state
          /\ chain' = IF ok
                      THEN [chain EXCEPT !.links =
                              SetLast(@, [Last(@) EXCEPT !.closed = TRUE])]
                      ELSE chain
          /\ priority' = IF ok THEN release_priority(reset(priority)) ELSE priority
          /\ prioChanged' = Watch("trigger_resolution_step", ok)
          /\ halt' = IF IsPanic(r) THEN r ELSE "none"
          /\ out' = r
    /\ UNCHANGED <<proposed_event, stack, attack_layer, game_state, resources,
                   action_points, health, intent, order, layerChanged, gsChanged,
                   pitched>>

trigger_link_step ==
    /\ Running("trigger_link_step")
    /\ pc' = NextPc
    /\ LET fire == /\ combat_state = "ResolutionStep"
                   /\ "trigger_link_step" \in prioChanged
                   /\ all_passed(priority)
                   /\ stack = <<>>
       IN /\ combat_state' = IF fire THEN "LinkStep" ELSE combat_state
          /\ priority' = IF fire THEN reset(priority) ELSE priority
          /\ prioChanged' = Watch("trigger_link_step", fire)
          /\ out' = IF fire THEN "Moving to Link Step" ELSE ""
    /\ UNCHANGED <<proposed_event, stack, attack_layer, chain, game_state, resources,
                   action_points, health, intent, order, halt, layerChanged, gsChanged,
                   pitched>>

trigger_close_step ==
    /\ Running("trigger_close_step")
    /\ pc' = NextPc
    /\ LET fire == /\ combat_state = "LinkStep"
                   /\ "trigger_close_step" \in prioChanged
                   /\ all_passed(priority)
                   /\ stack = <<>>
       IN /\ combat_state' = IF fire THEN "CloseStep" ELSE combat_state
          /\ priority' = IF fire THEN reset(priority) ELSE priority
          /\ prioChanged' = Watch("trigger_close_step", fire)
          /\ out' = IF fire THEN "Moving to Close Step" ELSE ""
    /\ UNCHANGED <<proposed_event, stack, attack_layer, chain, game_state, resources,
                   action_points, health, intent, order, halt, layerChanged, gsChanged,
                   pitched>>

(***************************************************************************)
(* state_change_systems (lines 1071-1195).                                 *)
(***************************************************************************)
\* The condition of end_start_phase: the phase is Start and the stack is empty.
StartPhaseOver(gs, st) == gs = "StartPhase" /\ st = <<>>

end_start_phase ==
    /\ Running("end_start_phase")
    /\ pc' = NextPc
    /\ LET fire == StartPhaseOver(game_state, stack)
       IN /\ game_state' = IF fire THEN "ActionPhase" ELSE game_state
          /\ gsChanged' = (gsChanged \/ fire)
          /\ out' = IF fire THEN "Ending start phase" ELSE ""
    /\ UNCHANGED <<priority, proposed_event, stack, attack_layer, chain, combat_state,
                   resources, action_points, health, intent, order, halt, prioChanged,
                   layerChanged, pitched>>

start_action_phase ==
    /\ Running("start_action_phase")
    /\ pc' = NextPc
    /\ LET fire == game_state = "ActionPhase" /\ gsChanged
           p == cycle_priority(priority)
           tp == turn_player(p)
           r == IF ~fire THEN ""
                ELSE IF tp = NoEntity THEN "panic: At least one player should exist"
                ELSE "Starting action phase"
       IN /\ priority' = IF fire THEN p ELSE priority
          /\ prioChanged' = Watch("start_action_phase", fire)
          /\ action_points' = IF r = "Starting action phase"
                              THEN [action_points EXCEPT ![tp] = 1] ELSE action_points
          /\ halt' = IF IsPanic(r) THEN r ELSE "none"
          /\ out' = r
    /\ gsChanged' = FALSE
    /\ UNCHANGED <<proposed_event, stack, attack_layer, chain, game_state, combat_state,
                   resources, health, intent, order, layerChanged, pitched>>

end_action_phase ==
    /\ Running("end_action_phase")
    /\ pc' = NextPc
    /\ LET fire == /\ stack = <<>>
                   /\ attack_layer = <<>>
                   /\ "end_action_phase" \in prioChanged
                   /\ all_passed(priority)
                   /\ ~chain.open
                   /\ game_state = "ActionPhase"
           tp == turn_player(priority)
           r == IF ~fire THEN ""
                ELSE IF tp = NoEntity THEN "panic: At least one player should exist"
                ELSE "Ending action phase"
           ok == r = "Ending action phase"
       IN /\ action_points' = IF ok THEN [action_points EXCEPT ![tp] = 0] ELSE action_points
          /\ game_state' = IF ok THEN "EndPhase" ELSE game_state
          /\ gsChanged' = (gsChanged \/ ok)
          /\ halt' = IF IsPanic(r) THEN r ELSE "none"
          /\ out' = r
    /\ prioChanged' = Watch("end_action_phase", FALSE)
    /\ UNCHANGED <<priority, proposed_event, stack, attack_layer, chain, combat_state,
                   resources, health, intent, order, layerChanged, pitched>>

trigger_end_phase ==
    /\ Running("trigger_end_phase")
    /\ pc' = NextPc
    /\ LET fire == /\ game_state = "ActionPhase"
                   /\ combat_state = "CloseStep"
                   /\ stack = <<>>
                   /\ "trigger_end_phase" \in prioChanged
                   /\ all_passed(priority)
       IN /\ game_state' = IF fire THEN "EndPhase" ELSE game_state
          /\ combat_state' = IF fire THEN "None" ELSE combat_state
          /\ gsChanged' = (gsChanged \/ fire)
          /\ out' = IF fire THEN "trigger_end_phase" ELSE ""
    /\ prioChanged' = Watch("trigger_end_phase", FALSE)
    /\ UNCHANGED <<priority, proposed_event, stack, attack_layer, chain, resources,
                   action_points, health, intent, order, halt, layerChanged, pitched>>

\* Faulty variant of EndPhaseOver: the phase test is left out.
EndPhaseOverAnyPhase(gs, st) == st = <<>>

\* The condition of end_end_phase: the phase is End and the stack is empty.
EndPhaseOver(gs, st) == gs = "EndPhase" /\ st = <<>>

end_end_phase ==
    /\ Running("end_end_phase")
    /\ pc' = NextPc
    /\ LET fire == EndPhaseOver(game_state, stack)
           tp == turn_player(priority)
           r == IF ~fire THEN ""
                ELSE IF tp = NoEntity THEN "panic: At least one player should exist"
                ELSE "Ending end phase"
           ok == r = "Ending end phase"
       IN /\ resources' = IF ok THEN [resources EXCEPT ![tp] = 0] ELSE resources
          /\ game_state' = IF ok THEN "StartPhase" ELSE game_state
          /\ gsChanged' = (gsChanged \/ ok)
          /\ halt' = IF IsPanic(r) THEN r ELSE "none"
          /\ out' = r
    /\ UNCHANGED <<priority, proposed_event, stack, attack_layer, chain, combat_state,
                   action_points, health, intent, order, prioChanged, layerChanged,
                   pitched>>

Next ==
    \/ main_loop
    \/ read_card
    \/ read_priority
    \/ read_pitch
    \/ read_blocks
    \/ evaluate_cost
    \/ resolve_stack
    \/ end_start_phase
    \/ start_action_phase
    \/ trigger_layer_step
    \/ trigger_attack_step
    \/ trigger_defend_step
    \/ trigger_reaction_step
    \/ trigger_damage_step
    \/ trigger_resolution_step
    \/ trigger_link_step
    \/ trigger_close_step
    \/ end_action_phase
    \/ trigger_end_phase
    \/ end_end_phase

(***************************************************************************)
(* The run with progress: the loop of main never stops running the         *)
(* schedule, and a participant who keeps being asked for a command          *)
(* eventually yields (passes priority, or in a block window declares no    *)
(* blocks).                                                                *)
(***************************************************************************)
UserYields ==
    /\ main_loop
    /\ \/ intent'.kind = "pass" /\ has_priority(priority, intent'.hero)
       \/ /\ intent'.kind = "block" /\ is_blocking(priority, intent'.hero)
          /\ intent'.blocks = <<>>

Spec == Init /\ [][Next]_vars

LiveSpec == Spec /\ WF_vars(Next) /\ SF_vars(UserYields)

(***************************************************************************)
(* The schedule started in the middle of an action phase, on resource      *)
(* values the combat triggers are written for but that the commands of     *)
(* main's world do not lead to: an attack staged in any combat step, and a  *)
(* staged attack or an open chain link whose target or attack card is      *)
(* unset or no longer resolves (Ghost: an entity despawned since).         *)
(* Nobody has resources or action points and no pitch is left.             *)
(***************************************************************************)
CombatValues == {"None", "LayerStep", "AttackStep", "DefendStep", "ReactionStep",
                 "DamageStep", "ResolutionStep", "LinkStep", "CloseStep"}

\* an attack admitted in combat step c: staged, the game holding priority
StagedCases ==
    {[combat |-> c,
      layer |-> <<GameEvent(HeroOrder[2], "attack_card", HeroOrder[1], TRUE)>>,
      links |-> IF c \in {"None", "LayerStep"} THEN <<>>
                ELSE <<ChainLink(HeroOrder[2], HeroOrder[1], "attack_card")>>,
      allpassed |-> FALSE, hold |-> TRUE, changed |-> TRUE] : c \in CombatValues}

\* the Layer step, everybody passed, on a staged attack that is gone, has no
\* target, has a target that no longer resolves, or is sound
LayerCases ==
    {[combat |-> "LayerStep", layer |-> l, links |-> <<>>,
      allpassed |-> TRUE, hold |-> FALSE, changed |-> FALSE] :
        l \in {<<>>} \cup {<<GameEvent(t, "attack_card", HeroOrder[1], TRUE)>> :
                              t \in {NoEntity, Ghost, HeroOrder[2]}}}

\* the Attack and the Reaction step, everybody passed, on a link whose target or
\* attack card may no longer resolve
LinkCases ==
    {[combat |-> c, layer |-> <<>>, links |-> <<ChainLink(t, HeroOrder[1], a)>>,
      allpassed |-> TRUE, hold |-> FALSE, changed |-> FALSE] :
        c \in {"AttackStep", "ReactionStep"}, t \in {HeroOrder[2], Ghost},
        a \in {"attack_card", Ghost}}

\* the chain an earlier attack left behind: nothing, or its closed link
PriorLinks ==
    {<<>>, <<[ChainLink(HeroOrder[1], HeroOrder[2], "toxicity_red")
                EXCEPT !.hit = TRUE, !.closed = TRUE]>>}

StepInit ==
    /\ \E k \in StagedCases \cup LayerCases \cup LinkCases, prior \in PriorLinks :
          /\ priority = [holding |-> IF k.allpassed THEN <<>> ELSE HeroOrder,
                         passed |-> IF k.allpassed THEN HeroOrder ELSE <<>>,
                         hold |-> k.hold, blocks |-> FALSE, card_played |-> TRUE]
          /\ combat_state = k.combat
          /\ attack_layer = k.layer
          /\ chain = [links |-> prior \o k.links, open |-> prior \o k.links # <<>>]
          /\ layerChanged = k.changed
    /\ proposed_event = <<>>
    /\ stack = <<>>
    /\ game_state = "ActionPhase"
    /\ resources = [h \in Heroes |-> 0]
    /\ action_points = [h \in Heroes |-> 0]
    /\ health = [h \in Heroes |-> InitialHealth]
    /\ intent = NoIntent
    /\ pc = 1
    /\ order \in Schedules
    /\ halt = "none"
    /\ out = ""
    /\ prioChanged = PrioWatchers
    /\ gsChanged = FALSE
    /\ pitched = MaxPitch

StepSpec == StepInit /\ [][Next]_vars

StepLiveSpec == StepSpec /\ WF_vars(Next) /\ SF_vars(UserYields)

(***************************************************************************)
(* The schedule started late in a game, in the Reaction step of an attack  *)
(* with everybody passed, on a target worn down by earlier hits.  Every    *)
(* turn may bring one attack (a pitch pays for it, and pitches are not     *)
(* limited), a hit takes 3 (no block), 1 (blocked with attack_card) or     *)
(* nothing, and nothing in the program ends a game, so InitialHealth = 40  *)
(* comes down to every value of LateHealth (1 = 40 - 13 * 3).  The chain   *)
(* holds the closed link of an earlier attack.                             *)
(***************************************************************************)
LateHealth == 0..3

\* the blocks declared against the attack: none, attack_card (Defense 2),
\* instant_card (Defense 3)
LateBlocks == {<<>>, <<"attack_card">>, <<"instant_card">>}

DamageInit ==
    /\ priority = [holding |-> <<>>, passed |-> HeroOrder, hold |-> FALSE,
                   blocks |-> FALSE, card_played |-> TRUE]
    /\ combat_state = "ReactionStep"
    /\ attack_layer = <<>>
    /\ \E prior \in PriorLinks \ {<<>>}, b \in LateBlocks :
          chain = [links |-> Append(prior,
                                    [ChainLink(HeroOrder[2], HeroOrder[1], "attack_card")
                                        EXCEPT !.blocks = b]),
                   open |-> TRUE]
    /\ \E hv \in LateHealth :
          health = [h \in Heroes |-> IF h = HeroOrder[2] THEN hv ELSE InitialHealth]
    /\ layerChanged = FALSE
    /\ proposed_event = <<>>
    /\ stack = <<>>
    /\ game_state = "ActionPhase"
    /\ resources = [h \in Heroes |-> 0]
    /\ action_points = [h \in Heroes |-> 0]
    /\ intent = NoIntent
    /\ pc = 1
    /\ order \in Schedules
    /\ halt = "none"
    /\ out = ""
    /\ prioChanged = PrioWatchers
    /\ gsChanged = FALSE
    /\ pitched = MaxPitch

DamageSpec == DamageInit /\ [][Next]_vars

(***************************************************************************)
(* The priority tracker on a table of three: Priority's methods (lines     *)
(* 340-415) and the turn's bookkeeping (end_start_phase and                *)
(* start_action_phase, end_action_phase, end_end_phase) applied to a table *)
(* of three participants, where "the next in the rotation" and "the        *)
(* previous one" differ.  Within the action phase the methods are applied  *)
(* in any order (the combat steps and the commands call them); the phases  *)
(* follow each other under the systems' own tests.  Here out names the     *)
(* method or system applied.                                               *)
(***************************************************************************)
Table == <<"hero1", "hero2", "hero3">>

Seated == {Table[i] : i \in 1..Len(Table)}

\* roll_for_first on the table of three
TrackerInit ==
    /\ priority \in {[holding |-> h, passed |-> <<>>, hold |-> FALSE, blocks |-> FALSE,
                      card_played |-> FALSE] : h \in Rotations(Table)}
    /\ proposed_event = <<>>
    /\ stack = <<>>
    /\ attack_layer = <<>>
    /\ chain = [links |-> <<>>, open |-> FALSE]
    /\ game_state = "StartPhase"
    /\ combat_state = "None"
    /\ resources = [h \in Seated |-> 0]
    /\ action_points = [h \in Seated |-> 0]
    /\ health = [h \in Seated |-> InitialHealth]
    /\ intent = NoIntent
    /\ pc = 0
    /\ order = DeclaredOrder
    /\ halt = "none"
    /\ out = ""
    /\ prioChanged = {}
    /\ layerChanged = FALSE
    /\ gsChanged = FALSE
    /\ pitched = 0

TrackerRest == <<proposed_event, stack, attack_layer, chain, combat_state,
                 health, intent, pc, order, halt, prioChanged, layerChanged,
                 gsChanged, pitched>>

\* Priority::pass_priority, called by read_priority and read_blocks
tracker_pass_priority ==
    /\ game_state = "ActionPhase"
    /\ priority' = pass_priority(priority)
    /\ out' = "pass_priority"
    /\ UNCHANGED <<game_state, resources, action_points, TrackerRest>>

\* Priority::reset, called by the combat triggers
tracker_reset ==
    /\ game_state = "ActionPhase"
    /\ priority' = reset(priority)
    /\ out' = "reset"
    /\ UNCHANGED <<game_state, resources, action_points, TrackerRest>>

\* Priority::hold_priority, called by read_card and evaluate_cost
tracker_hold_priority ==
    /\ game_state = "ActionPhase"
    /\ priority' = hold_priority(priority)
    /\ out' = "Game is holding priority"
    /\ UNCHANGED <<game_state, resources, action_points, TrackerRest>>

\* Priority::release_priority
tracker_release_priority ==
    /\ game_state = "ActionPhase"
    /\ priority' = release_priority(priority)
    /\ out' = "Game is releasing priority"
    /\ UNCHANGED <<game_state, resources, action_points, TrackerRest>>

\* evaluate_cost admits a card: card_played is set (line 653)
tracker_card_played ==
    /\ game_state = "ActionPhase"
    /\ priority' = [priority EXCEPT !.card_played = TRUE]
    /\ out' = "card_played"
    /\ UNCHANGED <<game_state, resources, action_points, TrackerRest>>

\* trigger_defend_step entering the Defend step on a hero target: blocks is
\* set, then reset and pass_priority (lines 904, 915-916)
tracker_defend ==
    /\ game_state = "ActionPhase"
    /\ all_passed(priority)
    /\ priority' = pass_priority(reset([priority EXCEPT !.blocks = TRUE]))
    /\ out' = "Switching to Defend Step."
    /\ UNCHANGED <<game_state, resources, action_points, TrackerRest>>

\* trigger_defend_step closing the block window (lines 927-929)
tracker_blocks_declared ==
    /\ game_state = "ActionPhase"
    /\ all_passed(priority)
    /\ priority.blocks
    /\ priority' = reset([priority EXCEPT !.blocks = FALSE])
    /\ out' = "Blocks declared"
    /\ UNCHANGED <<game_state, resources, action_points, TrackerRest>>

\* a participant pitches a card and gains a resource (read_pitch)
tracker_pitch ==
    /\ game_state = "ActionPhase"
    /\ \E h \in Seated : resources' = [resources EXCEPT ![h] = 1]
    /\ out' = "pitch"
    /\ UNCHANGED <<game_state, priority, action_points, TrackerRest>>

\* end_start_phase followed by start_action_phase
tracker_start_action_phase ==
    /\ StartPhaseOver(game_state, stack)
    /\ game_state' = "ActionPhase"
    /\ LET p == cycle_priority(priority)
       IN /\ priority' = p
          /\ action_points' = [action_points EXCEPT ![turn_player(p)] = 1]
    /\ out' = "Starting action phase"
    /\ UNCHANGED <<resources, TrackerRest>>

\* end_action_phase
tracker_end_action_phase ==
    /\ game_state = "ActionPhase"
    /\ stack = <<>>
    /\ attack_layer = <<>>
    /\ all_passed(priority)
    /\ action_points' = [action_points EXCEPT ![turn_player(priority)] = 0]
    /\ game_state' = "EndPhase"
    /\ out' = "Ending action phase"
    /\ UNCHANGED <<priority, resources, TrackerRest>>

\* end_end_phase
tracker_end_end_phase ==
    /\ EndPhaseOver(game_state, stack)
    /\ resources' = [resources EXCEPT ![turn_player(priority)] = 0]
    /\ game_state' = "StartPhase"
    /\ out' = "Ending end phase"
    /\ UNCHANGED <<priority, action_points, TrackerRest>>

TrackerNext ==
    \/ tracker_pass_priority
    \/ tracker_reset
    \/ tracker_hold_priority
    \/ tracker_release_priority
    \/ tracker_card_played
    \/ tracker_defend
    \/ tracker_blocks_declared
    \/ tracker_pitch
    \/ tracker_start_action_phase
    \/ tracker_end_action_phase
    \/ tracker_end_end_phase

TrackerSpec == TrackerInit /\ [][TrackerNext]_vars

(***************************************************************************)
(* Properties.                                                             *)
(***************************************************************************)
\* the proposed event evaluate_cost is about to evaluate
Proposal == proposed_event[1]

Evaluating == Running("evaluate_cost") /\ proposed_event # <<>>

\* the Damage transition fires in this step
DamageFires ==
    /\ Running("trigger_damage_step")
    /\ combat_state = "ReactionStep"
    /\ combat_state' = "DamageStep"

\* C1: in every reachable state holding and passed together hold exactly the
\* participants rolled in at start-up, each exactly once.
C1_ParticipantsKept ==
    LET s == priority.holding \o priority.passed
    IN /\ Len(s) = Cardinality(Heroes)
       /\ {s[i] : i \in 1..Len(s)} = Heroes

\* a state after passes, resets and a cycle: a second turn's action phase, an
\* attack behind it, one participant passed
C1_Witness ==
    /\ priority.passed # <<>>
    /\ priority.holding # <<>>
    /\ chain.links # <<>>
    /\ combat_state = "None"
    /\ game_state = "ActionPhase"

\* the staged attack leaves AttackStaging in this step
Unstaged == attack_layer # <<>> /\ attack_layer' = <<>>

\* ... as a new, undecided link of the chain, in the Attack step
OpensLink ==
    /\ chain'.links = Append(chain.links,
                             ChainLink(attack_layer[1].target, attack_layer[1].actor,
                                       attack_layer[1].card))
    /\ ~Last(chain'.links).hit
    /\ combat_state' = "AttackStep"

\* ... as an abort to Close for a target that does not resolve
AbortsToClose ==
    /\ ~TargetResolves(attack_layer[1].target)
    /\ chain' = chain
    /\ combat_state' = "CloseStep"

\* the hit flag of some link changes in this step
HitChanges ==
    \/ Len(chain'.links) # Len(chain.links) /\ Last(chain'.links).hit
    \/ /\ Len(chain'.links) = Len(chain.links)
       /\ \E i \in 1..Len(chain.links) : chain'.links[i].hit # chain.links[i].hit

C3_DamageBounded ==
    [][DamageFires =>
        LET link == Last(chain.links)
            a == AttackOf(link.attack)
            d == SumDefense(link.blocks) + SumDefense(link.defense_reactions)
        IN /\ a < d => health' = health /\ ~Last(chain'.links).hit
           /\ a >= d => \A h \in Heroes : health[h] - health'[h] <= a - d
                                          /\ health'[h] <= health[h]]_vars

\* the Damage step was entered with more defense than attack
C3_Witness ==
    /\ combat_state = "DamageStep"
    /\ out = "no hit"
    /\ SumDefense(Last(chain.links).blocks) > AttackOf(Last(chain.links).attack)

C6_NoActionPointRejected ==
    [][Evaluating /\ is_action(CardTypeOf(Proposal.card))
        /\ action_points[Proposal.actor] = 0 =>
        /\ proposed_event' = <<>>
        /\ ~priority'.hold
        /\ halt' = "none"
        /\ UNCHANGED <<resources, action_points, stack, attack_layer, game_state,
                       combat_state>>]_vars

C6_Witness ==
    /\ out = "Player does not have any action points."
    /\ proposed_event = <<>>

\* C7: with the actor's resources below the card's cost the gate rejects before
\* any deduction: nothing is paid, staged or stacked, action_occurred is not set,
\* game_holds ends false.
C7_UnaffordableRejected ==
    [][Evaluating /\ resources[Proposal.actor] < CostOf(Proposal.card) =>
        /\ ~priority'.hold
        /\ halt' = "none"
        /\ priority'.card_played = priority.card_played
        /\ UNCHANGED <<resources, action_points, stack, attack_layer>>]_vars

C7_Witness ==
    /\ out = "Not enough resources."
    /\ ~priority.hold

\* a rejection by the gate
Rejects == Evaluating /\ out' \in {"Player does not have any action points.",
                                   "Not enough resources."}

\* C8 as claimed: every rejection discards the proposal.
C8_RejectionTerminal == [][Rejects => proposed_event' = <<>>]_vars

\* C8 amended: a rejection for want of an action point discards the proposal; a
\* rejection for want of resources keeps it pending, and the gate admits a pending
\* proposal only when the priority holder can pay for it.
C8_RejectionKeepsUnpaid ==
    [][/\ Evaluating /\ out' = "Player does not have any action points."
            => proposed_event' = <<>>
       /\ Evaluating /\ out' = "Not enough resources."
            => proposed_event' = proposed_event
       /\ Evaluating /\ out' = "added to the stack"
            => resources[priority_hero(priority)] >= CostOf(Proposal.card)]_vars

\* a proposal rejected for want of resources was admitted after the run's one
\* pitch: the game holds priority from the pitch to the admission, so no play
\* command came between them
C8_Witness ==
    /\ out = "added to the stack"
    /\ pitched = 1
    /\ attack_layer # <<>>

\* the reader of a command whose sender lacks the right to it
IllegalActor ==
    \/ /\ Running("read_card") /\ intent.kind = "play"
       /\ Front(priority.holding) # intent.hero
    \/ /\ Running("read_priority") /\ intent.kind = "pass"
       /\ Front(priority.holding) # intent.hero
    \/ /\ Running("read_pitch") /\ intent.kind = "pitch"
       /\ Front(priority.holding) # intent.hero
    \/ /\ Running("read_blocks") /\ intent.kind = "block"
       /\ (Front(priority.holding) # intent.hero \/ ~priority.blocks)
    \/ /\ Running("read_card") /\ intent.kind = "play" /\ priority.blocks
    \/ /\ Running("read_priority") /\ intent.kind = "pass" /\ priority.blocks
    \/ /\ Running("read_pitch") /\ intent.kind = "pitch" /\ priority.blocks

\* C9: a play, pass or pitch command of a participant without priority, and a
\* block command of one who is not declaring blocks, changes no engine state.
C9_IllegalActorNoEffect ==
    [][IllegalActor =>
        /\ halt' = "none"
        /\ UNCHANGED <<priority, proposed_event, stack, attack_layer, chain, resources,
                       action_points, health, game_state, combat_state>>]_vars

C9_Witness ==
    /\ out \in {"Player does not have priority", "You do not have priority",
                "Player cannot block at this moment"}
    /\ game_state = "ActionPhase"

AwaitsLayer == attack_layer # <<>> /\ combat_state # "LayerStep"

\* the Layer transition fires in this step
LayerFires ==
    /\ Running("trigger_layer_step")
    /\ combat_state # "LayerStep"
    /\ combat_state' = "LayerStep"

\* C11: from the staging of an attack until the Layer transition fires the game
\* holds priority, no command is read and nothing is proposed or admitted; the
\* Layer transition ends the hold.
C11_HoldUntilLayer ==
    /\ [](AwaitsLayer => /\ priority.hold
                         /\ intent = NoIntent
                         /\ proposed_event = <<>>)
    /\ [][AwaitsLayer /\ ~LayerFires => UNCHANGED <<attack_layer, stack, resources,
                                                    action_points, chain>>]_vars
    /\ [][LayerFires => priority.hold /\ ~priority'.hold]_vars

\* between the admission and the Layer transition
C11_Witness ==
    /\ AwaitsLayer
    /\ priority.hold
    /\ out # "added to the stack"
    /\ pc > 0

\* C12: an attack is staged only into an empty AttackStaging, and a staged attack
\* stays as it is until the Layer to Attack transition takes it.
C12_StagedOnlyWhenEmpty ==
    [][/\ attack_layer' # <<>> /\ attack_layer' # attack_layer
            => attack_layer = <<>> /\ Running("evaluate_cost")
       /\ attack_layer # <<>> /\ attack_layer' # attack_layer
            => /\ Running("trigger_attack_step")
               /\ combat_state = "LayerStep"
               /\ attack_layer' = <<>>]_vars

\* a second attack was proposed while one was staged, and refused
C12_Witness ==
    /\ attack_layer # <<>>
    /\ combat_state = "LayerStep"
    /\ out = "Player does not have any action points."

C14_LayerEntry ==
    [][/\ combat_state' = "LayerStep" /\ combat_state # "LayerStep"
            => combat_state \in {"None", "LinkStep"} /\ Running("trigger_layer_step")
       /\ (/\ Running("trigger_layer_step") /\ layerChanged /\ attack_layer # <<>>
           /\ combat_state \notin {"None", "LinkStep"})
            => attack_layer' = <<>> /\ combat_state' = combat_state /\ chain' = chain
       /\ Len(chain'.links) > Len(chain.links)
            => /\ Running("trigger_attack_step")
               /\ combat_state = "LayerStep"
               /\ attack_layer # <<>>
               /\ Last(chain'.links).attack = attack_layer[1].card]_vars

\* an attack staged during the Damage step was removed
C14_Witness ==
    /\ out = "Attack incorrectly added to the stack"
    /\ attack_layer = <<>>
    /\ combat_state \in {"DamageStep", "ResolutionStep"}

\* the Layer to Attack transition fires in this step
AttackFires ==
    /\ Running("trigger_attack_step")
    /\ combat_state = "LayerStep"
    /\ combat_state' # "LayerStep"

\* C15: when the Layer to Attack transition finds the staged attack's target unset
\* or not resolving, the step becomes Close, staging is emptied, no link is
\* appended and no health changes; health changes in the Damage transition alone.
C15_InvalidTargetAborts ==
    [][/\ (AttackFires /\ attack_layer # <<>> /\ attack_layer[1].target \notin Entities)
            => /\ combat_state' = "CloseStep"
               /\ attack_layer' = <<>>
               /\ chain' = chain
               /\ health' = health
               /\ halt' = "none"
       /\ health' # health => DamageFires]_vars

\* aborted for a target that no longer resolves
C15_Witness ==
    /\ out = "Invalid target. Moving to Close Step"
    /\ combat_state = "CloseStep"
    /\ attack_layer = <<>>
    /\ chain.links = <<>>

\* C16: the engine never fails fatally on a chain link whose attack or target
\* does not resolve when the Defend or the Damage transition uses it.
C16_NoFatalDangling ==
    halt \notin {"panic: Target ceased to exist during defense step",
                 "panic: Attack has ceased to exist during the damage step",
                 "panic: Target ceased to exist at damage step"}

\* the step changes of one attack, with the abort and the next attack of a chain
StepOrder ==
    {<<"None", "LayerStep">>, <<"LayerStep", "AttackStep">>, <<"AttackStep", "DefendStep">>,
     <<"DefendStep", "ReactionStep">>, <<"ReactionStep", "DamageStep">>,
     <<"DamageStep", "ResolutionStep">>, <<"ResolutionStep", "LinkStep">>,
     <<"LinkStep", "CloseStep">>, <<"LayerStep", "CloseStep">>, <<"LinkStep", "LayerStep">>}

\* C17: the combat step changes only along Layer, Attack, Defend, Reaction,
\* Damage, Resolution, Link, Close, by the abort from Layer to Close, from Link to
\* a new Layer, and back to none in a step that takes the phase out of Action.
C17_StepOrder ==
    [][combat_state' # combat_state =>
        \/ <<combat_state, combat_state'>> \in StepOrder
        \/ /\ combat_state' = "None"
           /\ game_state = "ActionPhase"
           /\ game_state' # "ActionPhase"]_vars

\* an attack went through to Close: its link was hit and closed
C17_Witness ==
    /\ combat_state = "CloseStep"
    /\ chain.links # <<>>
    /\ Last(chain.links).closed
    /\ Last(chain.links).hit
    /\ out = "Moving to Close Step"

\* C18: the phase only ever changes from Start to Action, from Action to End
\* and from End to Start.
C18_PhaseCycle ==
    [][game_state' # game_state =>
          <<game_state, game_state'>> \in {<<"StartPhase", "ActionPhase">>,
                                           <<"ActionPhase", "EndPhase">>,
                                           <<"EndPhase", "StartPhase">>}]_vars

\* The phase has gone round the whole cycle: a second action phase has
\* started (its turn player holds the action point) after an attack of an
\* earlier turn left its chain link behind.
C18_Witness ==
    /\ game_state = "ActionPhase"
    /\ chain.links # <<>>
    /\ combat_state = "None"
    /\ \E h \in Heroes : action_points[h] = 1

\* C19: the phase changes from Action to End only when the resolution stack
\* is empty, no attack is staged and every participant has passed (nobody is
\* left holding priority and the game is not held).
C19_ActionEndsSettled ==
    [][(game_state = "ActionPhase" /\ game_state' # "ActionPhase") =>
          /\ game_state' = "EndPhase"
          /\ stack = <<>>
          /\ attack_layer = <<>>
          /\ priority.holding = <<>>
          /\ ~priority.hold]_vars

\* The action phase has just been ended after an attack ran to its close
\* step: trigger_end_phase moved the phase on.
C19_Witness ==
    /\ game_state = "EndPhase"
    /\ out = "trigger_end_phase"
    /\ chain.links # <<>>

SeatedAfter(o, x) == o[(Pos(o, x) % Len(o)) + 1]

\* the step is start_action_phase starting an action phase
ActionPhaseStarts == out' = "Starting action phase" /\ out # out'

\* C21: on each entry to the action phase holding contains every participant
\* (in the rotation's order) and passed is empty, the turn player, the head of
\* holding, is the participant seated one position after the previous action
\* phase's turn player, and that participant's action points are exactly 1.
C21_TurnRotates ==
    [][ActionPhaseStarts =>
          LET o == priority.passed \o priority.holding
              h == priority'.holding
          IN /\ priority'.passed = <<>>
             /\ Len(h) = Cardinality(DOMAIN action_points)
             /\ {h[i] : i \in 1..Len(h)} = DOMAIN action_points
             /\ h \in Rotations(o)
             /\ Head(h) = SeatedAfter(o, turn_player(priority))
             /\ turn_player(priority') = Head(h)
             /\ action_points'[Head(h)] = 1]_vars

\* A later action phase has started on the table of three (a resource pitched
\* in an earlier action phase is still there): the new turn player holds the
\* action point, the previous one, now last in holding, has none.
C21_Witness ==
    /\ out = "Starting action phase"
    /\ Len(priority.holding) = 3
    /\ action_points[priority.holding[1]] = 1
    /\ action_points[priority.holding[3]] = 0
    /\ \E h \in DOMAIN resources : resources[h] = 1

\* the participants in the order of the current turn: who passed, then who
\* still holds
TurnOrder(p) == p.passed \o p.holding

\* C22: in every turn the participant granted the action point at the start
\* of the action phase (the head of the turn's order, which no step of the
\* turn changes) is the one whose action points are zero once the action
\* phase has ended and whose resources are zeroed when the end phase ends;
\* turn_player() names that participant at all three points, and nobody
\* else's points or resources are touched there.
C22_OneTurnPlayer ==
    [][/\ ActionPhaseStarts =>
             /\ turn_player(priority') = Head(TurnOrder(priority'))
             /\ action_points'[Head(TurnOrder(priority'))] = 1
       /\ (~ActionPhaseStarts /\ halt' = "none") =>
             TurnOrder(priority') = TurnOrder(priority)
       /\ (game_state = "ActionPhase" /\ game_state' = "EndPhase") =>
             /\ action_points'[Head(TurnOrder(priority))] = 0
             /\ \A h \in DOMAIN action_points :
                    h # Head(TurnOrder(priority)) => action_points'[h] = action_points[h]
             /\ out' = "Ending action phase" =>
                    turn_player(priority) = Head(TurnOrder(priority))
       /\ (game_state = "EndPhase" /\ game_state' = "StartPhase") =>
             /\ turn_player(priority) = Head(TurnOrder(priority))
             /\ resources'[Head(TurnOrder(priority))] = 0
             /\ \A h \in DOMAIN resources :
                    h # Head(TurnOrder(priority)) => resources'[h] = resources[h]]_vars

\* An end phase has just ended on the table of three and took the turn
\* player's resource, while another participant keeps the one pitched.
C22_Witness ==
    /\ out = "Ending end phase"
    /\ Len(priority.passed) = 3
    /\ resources[priority.passed[1]] = 0
    /\ resources[priority.passed[2]] = 1

\* C23: in every reachable state, the states between two systems of a tick
\* included, all_passed() is true exactly when holding is empty and the game
\* does not hold, someone_has_priority() exactly when holding is not empty and
\* the game does not hold, and the two are never true together.
C23_PassedOrPriority ==
    /\ all_passed(priority) <=> (Len(priority.holding) = 0 /\ priority.hold = FALSE)
    /\ someone_has_priority(priority) <=>
          (Len(priority.holding) > 0 /\ priority.hold = FALSE)
    /\ ~(all_passed(priority) /\ someone_has_priority(priority))

\* In the middle of a tick the game holds while participants are still in
\* holding: neither everybody has passed nor anybody has priority.
C23_Witness ==
    /\ pc # 0
    /\ priority.hold
    /\ priority.holding # <<>>
    /\ ~all_passed(priority)
    /\ ~someone_has_priority(priority)

\* C24: reset() sets holding to the old passed sequence, in the order the
\* participants passed, followed by the old holding sequence, and leaves
\* passed empty; it changes none of hold, blocks and card_played.
C24_ResetMerges ==
    [][out' = "reset" =>
          /\ priority'.holding = priority.passed \o priority.holding
          /\ priority'.passed = <<>>
          /\ priority'.hold = priority.hold
          /\ priority'.blocks = priority.blocks
          /\ priority'.card_played = priority.card_played]_vars

\* reset() has just been applied to a tracker of three with the three flags
\* set: everybody is back in holding and the flags are still set.
C24_Witness ==
    /\ out = "reset"
    /\ Len(priority.holding) = 3
    /\ priority.passed = <<>>
    /\ priority.hold
    /\ priority.blocks
    /\ priority.card_played

\* C25: reset() is idempotent: on every tracker state, reset() called twice
\* with no pass in between leaves the same holding and passed as reset()
\* called once.
C25_ResetIdempotent ==
    /\ reset(reset(priority)).holding = reset(priority).holding
    /\ reset(reset(priority)).passed = reset(priority).passed

\* A tracker on which reset() does something: one participant has passed,
\* two still hold.
C25_Witness ==
    /\ Len(priority.passed) = 1
    /\ Len(priority.holding) = 2
    /\ reset(priority) # priority
    /\ reset(reset(priority)) = reset(priority)

\* the step is read_blocks accepting a block declaration
BlocksAccepted ==
    /\ Running("read_blocks")
    /\ intent.kind = "block"
    /\ is_blocking(priority, intent.hero)
    /\ BlocksResult(intent.blocks) = "blocks declared"

\* the step enters the Defend, the Damage or the Resolution step
LinkStepEntered ==
    /\ combat_state' # combat_state
    /\ combat_state' \in {"DefendStep", "DamageStep", "ResolutionStep"}

\* C26: an accepted block declaration and the Defend, Damage and Resolution
\* transitions happen only in states where the chain has at least one link,
\* and none of them ends the run for want of a link.
C26_LinkPresent ==
    [][(BlocksAccepted \/ LinkStepEntered) =>
          /\ Len(chain.links) >= 1
          /\ halt' \notin {"panic: Chain link missing",
                            "panic: Chain link ceased to exist during defense step",
                            "panic: trigger_damage_step: no chain link",
                            "panic: Chain link ceased to exist during resolution step"}]_vars

\* The four operations have all acted on one link: blocks were declared on
\* it and it went through Defend and Damage to Resolution, which closed it.
C26_Witness ==
    /\ combat_state = "ResolutionStep"
    /\ Len(chain.links) >= 1
    /\ Last(chain.links).blocks # <<>>
    /\ Last(chain.links).closed

\* the step is the Damage transition (trigger_damage_step fires)
DamageEntered == combat_state = "ReactionStep" /\ combat_state' = "DamageStep"

\* the step is the Resolution transition (trigger_resolution_step fires)
ResolutionEntered == combat_state = "DamageStep" /\ combat_state' = "ResolutionStep"

\* C27: the chain is append-only: the number of links never decreases, the
\* target, attacker and attack of an existing link never change, a hit or
\* closed flag that is true stays true, a new link starts with both false,
\* hit is written only at the Damage transition and closed only at the
\* Resolution transition.
C27_ChainAppendOnly ==
    [][/\ Len(chain'.links) >= Len(chain.links)
       /\ \A i \in 1..Len(chain.links) :
             LET l == chain.links[i]
                 m == chain'.links[i]
             IN /\ m.target = l.target
                /\ m.attacker = l.attacker
                /\ m.attack = l.attack
                /\ l.hit => m.hit
                /\ l.closed => m.closed
                /\ m.hit # l.hit => DamageEntered
                /\ m.closed # l.closed => ResolutionEntered
       /\ \A i \in (Len(chain.links) + 1)..Len(chain'.links) :
             ~chain'.links[i].hit /\ ~chain'.links[i].closed]_vars

\* A second link was appended behind an earlier attack's closed link, was hit
\* at the Damage transition and closed at the Resolution transition, and the
\* earlier link is as it was.
C27_Witness ==
    /\ Len(chain.links) = 2
    /\ chain.links[1] \in {l[1] : l \in PriorLinks \ {<<>>}}
    /\ chain.links[2].hit
    /\ chain.links[2].closed
    /\ chain.links[2].attack = "attack_card"
    /\ attack_layer = <<>>
    /\ combat_state = "ResolutionStep"

\* the systems that admit a command, and the phase triggers
Admission == {"read_card", "read_priority", "read_pitch", "read_blocks", "evaluate_cost"}

PhaseTriggers == {"end_start_phase", "start_action_phase", "end_action_phase",
                  "trigger_end_phase", "end_end_phase"}

\* C28: within a tick the systems run in the fixed order admission, then
\* phase triggers, then combat-step triggers, then stack resolution (so that
\* the state after a tick is a function of the state before it and of the
\* command, whatever else could order the systems).
C28_FixedTickOrder ==
    /\ \A a \in Admission, t \in PhaseTriggers : Pos(order, a) < Pos(order, t)
    /\ \A t \in PhaseTriggers, c \in CombatTriggers : Pos(order, t) < Pos(order, c)
    /\ \A c \in CombatTriggers : Pos(order, c) < Pos(order, "resolve_stack")

\* the step is trigger_defend_step entering the Defend step
DefendEntered == combat_state = "AttackStep" /\ combat_state' = "DefendStep"

\* C29: when the Defend step is entered with a participant as the target of
\* the current link, the one participant for whom is_blocking becomes true
\* is the defender, the target of that link.
C29_DefenderBlocks ==
    [][(DefendEntered /\ halt' = "none" /\ IsHero(Last(chain.links).target)) =>
          \A h \in DOMAIN health :
             is_blocking(priority', h) <=> h = Last(chain.links).target]_vars

\* C30: once the Damage step is entered the engine moves to the Resolution
\* step without any input and within the next tick: while the step is Damage
\* the main loop reads no command and only trigger_resolution_step changes
\* the step, and it does so whenever it runs.  That transition sets closed on
\* the current link, whose hit flag it leaves as the Damage transition
\* computed it, merges passed back into holding and clears the hold, so that
\* somebody has priority again.
C30_DamageResolves ==
    [][(combat_state = "DamageStep" /\ halt = "none") =>
          /\ ~Last(chain.links).closed
          /\ pc = 0 => (intent' = NoIntent /\ pc' = 1 /\ halt' = "none")
          /\ (pc # 0 /\ ~Running("trigger_resolution_step")) =>
                (combat_state' = "DamageStep" /\ chain' = chain)
          /\ Running("trigger_resolution_step") =>
                /\ combat_state' = "ResolutionStep"
                /\ halt' = "none"
                /\ Len(chain'.links) = Len(chain.links)
                /\ Last(chain'.links).closed
                /\ Last(chain'.links).hit = Last(chain.links).hit
                /\ priority'.holding = priority.passed \o priority.holding
                /\ priority'.passed = <<>>
                /\ ~priority'.hold
                /\ someone_has_priority(priority')]_vars

\* The Resolution transition has just closed a link that the Damage
\* transition marked as hit, and a participant has priority again.
C30_Witness ==
    /\ out = "Moving to Resolution Step"
    /\ combat_state = "ResolutionStep"
    /\ Last(chain.links).hit
    /\ Last(chain.links).closed
    /\ \E h \in Heroes : health[h] < InitialHealth
    /\ someone_has_priority(priority)

\* the head of holding moved to the back of passed, nothing else
HeadMoved(p) ==
    IF p.holding = <<>> THEN p
    ELSE [holding |-> Tail(p.holding), passed |-> Append(p.passed, Head(p.holding)),
          hold |-> p.hold, blocks |-> p.blocks, card_played |-> p.card_played]

C32_NoStepOutsideAction ==
    game_state \in {"StartPhase", "EndPhase"} => combat_state = "None"

\* A later turn has begun after a turn whose attack ran to its close step:
\* the phase is Start again and the combat step is none.
C32_Witness ==
    /\ game_state = "StartPhase"
    /\ combat_state = "None"
    /\ Len(chain.links) >= 1
    /\ Last(chain.links).closed

\* C33: the engine never gets stuck: from every state where nobody can be
\* prompted (someone_has_priority() is false) its own transitions eventually
\* reach a state where somebody can (or the run ends).
C33_NeverStuck ==
    (~someone_has_priority(priority) /\ halt = "none")
        ~> (someone_has_priority(priority) \/ halt # "none")

\* C34: in every turn, a turn after one in which a chain link was opened
\* included, when no attack was played in the action phase (no combat step
\* was entered) and every participant has passed with the stack and the
\* staging empty, the phase eventually moves to End.
C34_QuietTurnEnds ==
    (/\ game_state = "ActionPhase"
     /\ combat_state = "None"
     /\ stack = <<>>
     /\ attack_layer = <<>>
     /\ all_passed(priority)
     /\ halt = "none")
        ~> (game_state = "EndPhase" \/ halt # "none")

\* C35: whenever evaluate_cost evaluates a pending proposal, the participant
\* whose action points and resources it checks and, on admission, deducts is
\* the proposal's actor, and nobody else's are changed.
C35_ActorPays ==
    [][(Evaluating /\ priority.holding # <<>>) =>
          /\ priority_hero(priority) = Proposal.actor
          /\ \A h \in Heroes :
                h # Proposal.actor =>
                   /\ resources'[h] = resources[h]
                   /\ action_points'[h] = action_points[h]]_vars

\* C36: whenever evaluate_cost evaluates a pending proposal somebody is in
\* holding, so its lookup of the priority hero never fails; in particular after
\* the actor of a proposal rejected for insufficient resources passed priority.
C36_HolderPresent ==
    /\ Evaluating => priority.holding # <<>>
    /\ halt # "panic: evaluate_cost: no priority hero"

\* evaluate_cost is about to evaluate a proposal whose actor has passed priority
C36_Witness ==
    /\ Evaluating
    /\ priority.holding # <<>>
    /\ \E i \in DOMAIN priority.passed : priority.passed[i] = Proposal.actor

\* the hit trigger_damage_step is about to apply: the damage calculation finds
\* the attack at least as large as the defense, on a target that resolves
Hitting ==
    /\ Running("trigger_damage_step")
    /\ combat_state = "ReactionStep"
    /\ "trigger_damage_step" \in prioChanged
    /\ all_passed(priority)
    /\ stack = <<>>
    /\ DamageResult(chain.links) = "taking damage"

\* C37: whenever a hit is applied the damage, attack - total_defense, is at most
\* the target's current health, so the subtraction on Health does not go below
\* zero: the step neither fails nor leaves a wrapped health.
C37_DamageWithinHealth ==
    [][Hitting =>
          /\ Dmg(AttackOf(Last(chain.links).attack), total_defense(Last(chain.links)))
                <= health[Last(chain.links).target]
          /\ halt' = "none"
          /\ \A h \in Heroes : health'[h] <= health[h]]_vars

\* C38: blocks (the blocks-only flag of the priority tracker) is set only while
\* the combat step is Defend: it is unset in every other combat step and outside
\* the action phase.
C38_BlocksOnlyInDefend ==
    priority.blocks => (combat_state = "DefendStep" /\ game_state = "ActionPhase")

\* the step is read_blocks reading a block declaration of the participant whose
\* block window is open
BlocksRead ==
    /\ Running("read_blocks")
    /\ intent.kind = "block"
    /\ is_blocking(priority, intent.hero)
    /\ chain.links # <<>>

\* every declared source resolves to a card with a defense value
AllCanBlock(b) == \A i \in 1..Len(b) : HasCardName(b[i]) /\ HasDefense(b[i])

\* C39: a block declaration is all or nothing.  If any declared source does not
\* resolve or has no defense value, the chain and the priority tracker are left
\* as they are and the declarer keeps the block window; otherwise the blocks of
\* the current link become exactly the declared list (nothing else of the chain
\* changes) and the declarer is moved from holding to the back of passed.
C39_BlocksAllOrNothing ==
    [][BlocksRead =>
          IF AllCanBlock(intent.blocks)
          THEN /\ chain' = [chain EXCEPT !.links[Len(chain.links)].blocks = intent.blocks]
               /\ priority' = [priority EXCEPT !.holding = Tail(priority.holding),
                                               !.passed = Append(priority.passed, intent.hero)]
          ELSE /\ chain' = chain
               /\ priority' = priority
               /\ is_blocking(priority', intent.hero)]_vars

\* a declaration naming a source that does not resolve was turned down: the
\* block window is still open and the link has no blocks
C39_Witness ==
    /\ out = "Invalid entry declared for blocks"
    /\ combat_state = "DefendStep"
    /\ priority.blocks
    /\ priority.holding # <<>>
    /\ chain.links # <<>>
    /\ Last(chain.links).blocks = <<>>

====
